---------------------------- MODULE Spec2Model ----------------------------
(***************************************************************************)
(* GROMACS task assignment: the functions of decidegpuusage.cpp that       *)
(* decide whether the nonbonded, PME, bonded and update tasks run on a     *)
(* GPU.  Each function is an operator from its arguments to an outcome     *)
(* (a returned bool, or a thrown exception with its type and message);     *)
(* each action is one invocation of a function, on arguments drawn from    *)
(* bounded sets, in a build whose configuration is fixed at Init.          *)
(***************************************************************************)
EXTENDS Integers, Sequences, FiniteSets, TLC

VARIABLES
    GMX_GPU,             \* config.h: the GPU flavour this binary was built for
    pmeGpuBuild,         \* what pme_gpu_supports_build() answers in this build
    resolver,            \* the function invoked last ("none" before the first)
    args,                \* its arguments
    outcome,             \* what it returned or threw
    mode,                \* which nonbonded function made the decision below
    useGpuForNonbonded,  \* the caller's nonbonded decision, if made
    useGpuForPme,        \* the caller's PME decision, if made
    run                  \* a thread-MPI run: the options and facts it started
                         \* with and the calls made so far (see SpecTwoPhase)

vars == <<GMX_GPU, pmeGpuBuild, resolver, args, outcome, mode, useGpuForNonbonded, useGpuForPme, run>>

-----------------------------------------------------------------------------
(* Bounds of the model *)

\* most GPU ids in gpuIdsToUse and in userGpuTaskAssignment
MaxGpus == 2
\* largest numRanksPerSimulation
MaxRanks == 4
\* largest numPmeRanksPerSimulation
MaxPmeRanks == 2
\* most simulation settings that differ from the GPU-update-compatible default
MaxNonDefault == 3

-----------------------------------------------------------------------------
(* Input domains *)

TaskTarget == {"Auto", "Cpu", "Gpu"}

EmulateGpuNonbonded == {"No", "Yes"}

GpuBuilds == {"GMX_GPU_NONE", "GMX_GPU_CUDA", "GMX_GPU_OPENCL"}

\* std::vector<int> of device ids: <<>>, <<0>>, <<0, 1>>, ...
GpuIdLists == {[i \in 1..n |-> i - 1] : n \in 0..MaxGpus}

\* rank counts; anything below 1 means "not yet decided" (-1 is the default)
RankCounts == -1..MaxRanks

PmeRankCounts == -1..MaxPmeRanks

\* a decision of the caller: not made yet, or the bool a call returned
Undecided == <<>>

Decided(b) == <<b>>

IsDecided(d) == d # Undecided

ValueOf(d) == d[1]

-----------------------------------------------------------------------------
(* Outcomes of a call *)

Return(value) == [kind |-> "return", value |-> value]

\* GMX_THROW(category(message)); a message is the sequence of its pieces
Throw(category, message) == [kind |-> "throw", category |-> category, message |-> message]

Returned(o) == o.kind = "return"

Threw(o) == o.kind = "throw"

ReturnedValue(o, b) == o.kind = "return" /\ o.value = b

ThrewCategory(o, category) == o.kind = "throw" /\ o.category = category

\* formatString(g_specifyEverythingFormatString, what)
SpecifyEverything(what) ==
    <<"When you use mdrun -gputasks, ", what,
      " must be set to non-default values, so that the device IDs can be interpreted correctly.">>
    \o (IF GMX_GPU # "GMX_GPU_NONE"
        THEN <<" If you simply want to restrict which GPUs are used, then it is better to use mdrun -gpu_id. Otherwise, setting the ",
               IF GMX_GPU = "GMX_GPU_CUDA" THEN "CUDA_VISIBLE_DEVICES" ELSE "GPU_DEVICE_ORDINAL",
               " environment variable in your bash profile or job script may be more convenient.">>
        ELSE <<>>)

-----------------------------------------------------------------------------
(* Nonbonded *)

NbGpuWithoutBuildSupport == <<"Nonbonded interactions on the GPU were requested with -nb gpu, but the GROMACS binary has been built without GPU support. Either run without selecting GPU options, or recompile GROMACS with GPU support enabled">>

NbCpuWithTaskAssignment == <<"A GPU task assignment was specified, but nonbonded interactions were assigned to the CPU. Make no more than one of these choices.">>

NbGpuWithEmulation == <<"Nonbonded interactions on the GPU were required, which is inconsistent with choosing emulation. Make no more than one of these choices.">>

NbTaskAssignmentWithEmulation == <<"GPU ID usage was specified, as was GPU emulation. Make no more than one of these choices.">>

NbGpuNotUseful == <<"Nonbonded interactions on the GPU were required, but not supported for these simulation settings. Change your settings, or do not require using GPUs.">>

\* the first test of decideWhetherToUseGpusForNonbondedWithThreadMpi
NonbondedExcludedWithThreadMpi(a) ==
    \/ a.nonbondedTarget = "Cpu"
    \/ a.emulateGpuNonbonded = "Yes"
    \/ ~a.nonbondedOnGpuIsUseful
    \/ ~a.buildSupportsNonbondedOnGpu

decideWhetherToUseGpusForNonbondedWithThreadMpi(a) ==
    IF NonbondedExcludedWithThreadMpi(a)
    THEN Return(FALSE)
    ELSE IF a.userGpuTaskAssignment # <<>>
    THEN IF a.nonbondedTarget = "Auto" \/ a.numRanksPerSimulation < 1
         THEN Throw("InconsistentInputError", SpecifyEverything("-nb and -ntmpi"))
         ELSE Return(TRUE)
    ELSE IF a.nonbondedTarget = "Gpu"
    THEN Return(TRUE)
    ELSE Return(a.gpuIdsToUse # <<>>)

\* (mutant) -nb gpu in a build without GPU support goes unnoticed
NonbondedBuildCheckSkipped(a) == FALSE

\* the build-support test of decideWhetherToUseGpusForNonbonded
NonbondedBuildCheckFails(a) ==
    ~a.buildSupportsNonbondedOnGpu /\ a.nonbondedTarget = "Gpu"

\* (mutant) -gputasks is followed whatever -nb says
NonbondedFollowsTaskAssignment(a) == Return(TRUE)

\* the -gputasks branch of decideWhetherToUseGpusForNonbonded
NonbondedWithTaskAssignment(a) ==
    IF a.nonbondedTarget = "Auto"
    THEN Throw("InconsistentInputError", SpecifyEverything("-nb and -ntmpi"))
    ELSE Return(TRUE)

\* (mutant) emulation with -gputasks falls back to the CPU
NonbondedWithEmulationIgnoresTaskAssignment(a) ==
    IF a.nonbondedTarget = "Gpu"
    THEN Throw("InconsistentInputError", NbGpuWithEmulation)
    ELSE Return(FALSE)

\* the emulation branch of decideWhetherToUseGpusForNonbonded
NonbondedWithEmulation(a) ==
    IF a.nonbondedTarget = "Gpu"
    THEN Throw("InconsistentInputError", NbGpuWithEmulation)
    ELSE IF a.userGpuTaskAssignment # <<>>
    THEN Throw("InconsistentInputError", NbTaskAssignmentWithEmulation)
    ELSE Return(FALSE)

decideWhetherToUseGpusForNonbonded(a) ==
    IF a.nonbondedTarget = "Cpu"
    THEN IF a.userGpuTaskAssignment # <<>>
         THEN Throw("InconsistentInputError", NbCpuWithTaskAssignment)
         ELSE Return(FALSE)
    ELSE IF NonbondedBuildCheckFails(a)
    THEN Throw("InconsistentInputError", NbGpuWithoutBuildSupport)
    ELSE IF a.emulateGpuNonbonded = "Yes"
    THEN NonbondedWithEmulation(a)
    ELSE IF ~a.nonbondedOnGpuIsUseful
    THEN IF a.nonbondedTarget = "Gpu"
         THEN Throw("InconsistentInputError", NbGpuNotUseful)
         ELSE Return(FALSE)
    ELSE IF a.userGpuTaskAssignment # <<>>
    THEN NonbondedWithTaskAssignment(a)
    ELSE IF a.nonbondedTarget = "Gpu"
    THEN Return(TRUE)
    ELSE Return(a.gpusWereDetected)

-----------------------------------------------------------------------------
(* PME *)

\* The three capability queries of gromacs/ewald/pme.h.  Each answers whether
\* PME can run on a GPU and, when it cannot, leaves its reasons in *message.
pme_gpu_supports_build ==
    [ok |-> pmeGpuBuild,
     message |-> IF pmeGpuBuild THEN "" ELSE "<reasons why this build cannot run PME on a GPU>"]

pme_gpu_supports_hardware(hardwareInfo) ==
    [ok |-> hardwareInfo.pmeGpuSupported,
     message |-> IF hardwareInfo.pmeGpuSupported THEN ""
                 ELSE "<reasons why this hardware cannot run PME on a GPU>"]

pme_gpu_supports_input(inputrec) ==
    [ok |-> inputrec.pmeGpuSupported,
     message |-> IF inputrec.pmeGpuSupported THEN ""
                 ELSE "<reasons why this input cannot run PME on a GPU>"]

PmeGpuWithoutNonbonded == <<"PME on GPUs is only supported when nonbonded interactions run on GPUs also.">>

PmeCannotCompute(message) == <<"Cannot compute PME interactions on a GPU, because ", message>>

PmeCpuWithTaskAssignment == <<"A GPU task assignment was specified, but PME interactions were assigned to the CPU. Make no more than one of these choices.">>

PmeGpuTaskAssignmentRanks == <<"When you run mdrun -pme gpu -gputasks, you must supply a PME-enabled .tpr file and use a single PME rank.">>

PmeGpuMoreThanOneRank == <<"PME tasks were required to run on GPUs, but that is not implemented with more than one PME rank. Use a single rank simulation, or a separate PME rank, or permit PME tasks to be assigned to the CPU.">>

\* (mutant) the first test without its useGpuForNonbonded operand
PmeExcludedWithThreadMpiNoNonbonded(a) ==
    \/ a.pmeTarget = "Cpu"
    \/ ~pme_gpu_supports_build.ok
    \/ ~pme_gpu_supports_hardware(a.hardwareInfo).ok
    \/ ~pme_gpu_supports_input(a.inputrec).ok

\* the first test of decideWhetherToUseGpusForPmeWithThreadMpi
PmeExcludedWithThreadMpi(a) ==
    \/ a.pmeTarget = "Cpu"
    \/ ~a.useGpuForNonbonded
    \/ ~pme_gpu_supports_build.ok
    \/ ~pme_gpu_supports_hardware(a.hardwareInfo).ok
    \/ ~pme_gpu_supports_input(a.inputrec).ok

\* (mutant) full automated mode takes any number of GPUs
PmeAutoWithThreadMpiAnyGpu(a) ==
    IF a.numRanksPerSimulation = 1
    THEN Return(a.gpuIdsToUse # <<>>)
    ELSE IF a.numRanksPerSimulation < 1
    THEN Return(a.gpuIdsToUse # <<>>)
    ELSE Return(FALSE)

\* the last three returns of decideWhetherToUseGpusForPmeWithThreadMpi
PmeAutoWithThreadMpi(a) ==
    IF a.numRanksPerSimulation = 1
    THEN Return(a.gpuIdsToUse # <<>>)
    ELSE IF a.numRanksPerSimulation < 1
    THEN Return(Len(a.gpuIdsToUse) = 1)
    ELSE Return(FALSE)

decideWhetherToUseGpusForPmeWithThreadMpi(a) ==
    IF PmeExcludedWithThreadMpi(a)
    THEN Return(FALSE)
    ELSE IF a.userGpuTaskAssignment # <<>>
    THEN IF a.pmeTarget = "Auto" \/ a.numRanksPerSimulation < 1
         THEN Throw("InconsistentInputError", SpecifyEverything("all of -nb, -pme, and -ntmpi"))
         ELSE IF a.pmeTarget = "Gpu"
         THEN IF \/ a.numRanksPerSimulation > 1 /\ a.numPmeRanksPerSimulation = 0
                 \/ a.numPmeRanksPerSimulation > 1
              THEN Throw("InconsistentInputError", PmeGpuTaskAssignmentRanks)
              ELSE Return(TRUE)
         ELSE Return(a.numRanksPerSimulation = 1)
    ELSE IF a.pmeTarget = "Gpu"
    THEN IF \/ a.numRanksPerSimulation > 1 /\ a.numPmeRanksPerSimulation = 0
            \/ a.numPmeRanksPerSimulation > 1
         THEN Throw("NotImplementedError", PmeGpuMoreThanOneRank)
         ELSE Return(TRUE)
    ELSE PmeAutoWithThreadMpi(a)

\* (mutant) -pme gpu without nonbonded on the GPU falls back to the CPU
PmeWithoutNonbondedSilent(a) == Return(FALSE)

\* the useGpuForNonbonded test of decideWhetherToUseGpusForPme
PmeWithoutNonbonded(a) ==
    IF a.pmeTarget = "Gpu"
    THEN Throw("NotImplementedError", PmeGpuWithoutNonbonded)
    ELSE Return(FALSE)

\* (mutant) the rank-count test without its first operand
PmeRanksNotImplementedOnlyMany(numRanksPerSimulation, numPmeRanksPerSimulation) ==
    numPmeRanksPerSimulation > 1

\* the rank-count test of decideWhetherToUseGpusForPme with -pme gpu
PmeRanksNotImplemented(numRanksPerSimulation, numPmeRanksPerSimulation) ==
    \/ numRanksPerSimulation > 1 /\ numPmeRanksPerSimulation = 0
    \/ numPmeRanksPerSimulation > 1

decideWhetherToUseGpusForPme(a) ==
    IF a.pmeTarget = "Cpu"
    THEN Return(FALSE)
    ELSE IF ~a.useGpuForNonbonded
    THEN PmeWithoutNonbonded(a)
    ELSE IF ~pme_gpu_supports_build.ok
    THEN IF a.pmeTarget = "Gpu"
         THEN Throw("NotImplementedError", PmeCannotCompute(pme_gpu_supports_build.message))
         ELSE Return(FALSE)
    ELSE IF ~pme_gpu_supports_hardware(a.hardwareInfo).ok
    THEN IF a.pmeTarget = "Gpu"
         THEN Throw("NotImplementedError",
                    PmeCannotCompute(pme_gpu_supports_hardware(a.hardwareInfo).message))
         ELSE Return(FALSE)
    ELSE IF ~pme_gpu_supports_input(a.inputrec).ok
    THEN IF a.pmeTarget = "Gpu"
         THEN Throw("NotImplementedError",
                    PmeCannotCompute(pme_gpu_supports_input(a.inputrec).message))
         ELSE Return(FALSE)
    ELSE IF a.pmeTarget = "Cpu"
    THEN IF a.userGpuTaskAssignment # <<>>
         THEN Throw("InconsistentInputError", PmeCpuWithTaskAssignment)
         ELSE Return(FALSE)
    ELSE IF a.userGpuTaskAssignment # <<>>
    THEN IF a.pmeTarget = "Auto"
         THEN Throw("InconsistentInputError", SpecifyEverything("all of -nb, -pme, and -ntmpi"))
         ELSE Return(TRUE)
    ELSE IF a.pmeTarget = "Gpu"
    THEN IF PmeRanksNotImplemented(a.numRanksPerSimulation, a.numPmeRanksPerSimulation)
         THEN Throw("NotImplementedError", PmeGpuMoreThanOneRank)
         ELSE Return(TRUE)
    ELSE IF a.numRanksPerSimulation = 1
    THEN Return(a.gpusWereDetected)
    ELSE Return(FALSE)

-----------------------------------------------------------------------------
(* Bonded *)

BondedGpuNotSupported == <<"Bonded interactions on the GPU were required, but not supported for these simulation settings. Change your settings, or do not require using GPUs.">>

BondedGpuWithoutNonbonded == <<"Bonded interactions on the GPU were required, but this requires that short-ranged non-bonded interactions are also run on the GPU. Change your settings, or do not require using GPUs.">>

\* (mutant) -bonded gpu without nonbonded on the GPU falls back to the CPU
BondedWithoutNonbondedSilent(a) == Return(FALSE)

\* the useGpuForNonbonded test of decideWhetherToUseGpusForBonded
BondedWithoutNonbonded(a) ==
    IF a.bondedTarget = "Gpu"
    THEN Throw("InconsistentInputError", BondedGpuWithoutNonbonded)
    ELSE Return(FALSE)

\* (mutant) separate PME ranks are not looked at
usingOurCpuForPmeOrEwaldAnyPmeRanks(a) ==
    \/ a.usingLJPme
    \/ /\ a.usingElecPmeOrEwald
       /\ ~a.useGpuForPme

\* whether this rank's CPU is busy with PME or Ewald
usingOurCpuForPmeOrEwald(a) ==
    \/ a.usingLJPme
    \/ /\ a.usingElecPmeOrEwald
       /\ ~a.useGpuForPme
       /\ a.numPmeRanksPerSimulation <= 0

decideWhetherToUseGpusForBonded(a) ==
    IF a.bondedTarget = "Cpu"
    THEN Return(FALSE)
    ELSE IF ~a.canUseGpuForBonded
    THEN IF a.bondedTarget = "Gpu"
         THEN Throw("InconsistentInputError", BondedGpuNotSupported)
         ELSE Return(FALSE)
    ELSE IF ~a.useGpuForNonbonded
    THEN BondedWithoutNonbonded(a)
    ELSE IF a.bondedTarget = "Gpu"
    THEN Return(TRUE)
    ELSE Return(a.gpusWereDetected /\ usingOurCpuForPmeOrEwald(a))

-----------------------------------------------------------------------------
(* Update *)

\* md_enums.h: the electrostatics types that use PME or Ewald summation
EEL_PME_EWALD(coulombtype) == coulombtype \in {"eelPME", "eelEWALD"}

\* the fields of t_inputrec that decideWhetherToUseGpuForUpdate reads
InputRecs ==
    [eI : {"eiMD", "eiSD1"},
     etc : {"etcNO", "etcNOSEHOOVER"},
     epc : {"epcNO", "epcBERENDSEN", "epcPARRINELLORAHMAN", "epcMTTK"},
     coulombtype : {"eelCUT", "eelPME"},
     epsilon_surface : {0, 1},
     bPull : BOOLEAN,
     pull : {"nullptr", "pull_params_t"},
     efep : {"efepNO", "efepYES"},
     eSwapCoords : {"eswapNO", "eswapX"}]

\* a plain md run: nothing in it stands in the way of the GPU update
DefaultSettings ==
    [inputrec |-> [eI |-> "eiMD", etc |-> "etcNO", epc |-> "epcNO", coulombtype |-> "eelCUT",
                   epsilon_surface |-> 0, bPull |-> FALSE, pull |-> "nullptr",
                   efep |-> "efepNO", eSwapCoords |-> "eswapNO"],
     haveVSites |-> FALSE,
     useEssentialDynamics |-> FALSE,
     doOrientationRestraints |-> FALSE,
     useReplicaExchange |-> FALSE]

NonDefaultCount(s) ==
    Cardinality({f \in DOMAIN s.inputrec : s.inputrec[f] # DefaultSettings.inputrec[f]})
    + Cardinality({f \in DOMAIN s \ {"inputrec"} : s[f] # DefaultSettings[f]})

\* the simulation settings tried: those at most MaxNonDefault away from the default
UpdateSettings ==
    {s \in [inputrec : InputRecs, haveVSites : BOOLEAN, useEssentialDynamics : BOOLEAN,
            doOrientationRestraints : BOOLEAN, useReplicaExchange : BOOLEAN] :
        NonDefaultCount(s) <= MaxNonDefault}

UpdatePrefix == <<"Update task on the GPU was required,\n", "but the following condition(s) were not satisfied:\n">>

\* errorMessage += text, when cond
Line(cond, text) == IF cond THEN <<text>> ELSE <<>>

\* (mutant) domain decomposition is not checked
UpdatePlacementLinesNoDD(a) ==
    Line(~(a.useGpuForPme \/ a.useGpuForNonbonded),
         "Either PME or short-ranged non-bonded interaction tasks must run on the GPU.\n")

\* the first two lines that decideWhetherToUseGpuForUpdate may append
UpdatePlacementLines(a) ==
       Line(a.isDomainDecomposition, "Domain decomposition is not supported.\n")
    \o Line(~(a.useGpuForPme \/ a.useGpuForNonbonded),
            "Either PME or short-ranged non-bonded interaction tasks must run on the GPU.\n")

\* errorMessage when decideWhetherToUseGpuForUpdate has made all its checks
UpdateErrorMessage(a) ==
       UpdatePlacementLines(a)
    \o Line(~a.gpusWereDetected, "Compatible GPUs must have been found.\n")
    \o Line(GMX_GPU # "GMX_GPU_CUDA", "Only a CUDA build is supported.\n")
    \o Line(a.inputrec.eI # "eiMD", "Only the md integrator is supported.\n")
    \o Line(a.inputrec.etc = "etcNOSEHOOVER", "Nose-Hoover temperature coupling is not supported.\n")
    \o Line(~(a.inputrec.epc \in {"epcNO", "epcPARRINELLORAHMAN", "epcBERENDSEN"}),
            "Only Parrinello-Rahman and Berendsen pressure coupling are supported.\n")
    \o Line(EEL_PME_EWALD(a.inputrec.coulombtype) /\ a.inputrec.epsilon_surface # 0,
            "Ewald surface correction is not supported.\n")
    \o Line(a.haveVSites, "Virtual sites are not supported.\n")
    \o Line(a.useEssentialDynamics, "Essential dynamics is not supported.\n")
    \o Line(a.inputrec.bPull \/ a.inputrec.pull # "nullptr", "Pulling is not supported.\n")
    \o Line(a.doOrientationRestraints, "Orientation restraints are not supported.\n")
    \o Line(a.inputrec.efep # "efepNO", "Free energy perturbations are not supported.\n")
    \o Line(a.useReplicaExchange, "Replica exchange simulations are not supported.\n")
    \o Line(a.inputrec.eSwapCoords # "eswapNO", "Swapping the coordinates is not supported.\n")

\* (mutant) -update auto takes the GPU without being told to
UpdateWantedByDefault(a) == a.updateTarget = "Auto" \/ a.updateTarget = "Gpu"

\* the last return of decideWhetherToUseGpuForUpdate
UpdateWanted(a) ==
    \/ a.forceGpuUpdateDefaultOn /\ a.updateTarget = "Auto"
    \/ a.updateTarget = "Gpu"

decideWhetherToUseGpuForUpdate(a) ==
    IF a.updateTarget = "Cpu"
    THEN Return(FALSE)
    ELSE LET errorMessage == UpdateErrorMessage(a)
         IN  IF errorMessage # <<>>
             THEN IF a.updateTarget = "Gpu"
                  THEN Throw("InconsistentInputError", UpdatePrefix \o errorMessage)
                  ELSE Return(FALSE)
             ELSE Return(UpdateWanted(a))

-----------------------------------------------------------------------------
(* The calls *)

NoCall == "none"

\* no call of a thread-MPI run made yet
NoRun == [nonbonded |-> <<>>, pme |-> <<>>, calls |-> <<>>]

Init ==
    /\ GMX_GPU \in GpuBuilds
    /\ pmeGpuBuild \in BOOLEAN
    /\ resolver = NoCall
    /\ args = <<>>
    /\ outcome = <<>>
    /\ mode = NoCall
    /\ useGpuForNonbonded = Undecided
    /\ useGpuForPme = Undecided
    /\ run = NoRun

\* what the caller keeps of a call: the bool returned, nothing if it threw
Decision(o) == IF Returned(o) THEN Decided(o.value) ELSE Undecided

CallNonbondedWithThreadMpi ==
    /\ resolver = NoCall
    /\ useGpuForNonbonded = Undecided
    /\ \E nonbondedTarget \in TaskTarget, gpuIdsToUse \in GpuIdLists,
          userGpuTaskAssignment \in GpuIdLists, emulateGpuNonbonded \in EmulateGpuNonbonded,
          buildSupportsNonbondedOnGpu \in BOOLEAN, nonbondedOnGpuIsUseful \in BOOLEAN,
          numRanksPerSimulation \in RankCounts :
          LET a == [nonbondedTarget |-> nonbondedTarget,
                    gpuIdsToUse |-> gpuIdsToUse,
                    userGpuTaskAssignment |-> userGpuTaskAssignment,
                    emulateGpuNonbonded |-> emulateGpuNonbonded,
                    buildSupportsNonbondedOnGpu |-> buildSupportsNonbondedOnGpu,
                    nonbondedOnGpuIsUseful |-> nonbondedOnGpuIsUseful,
                    numRanksPerSimulation |-> numRanksPerSimulation]
              o == decideWhetherToUseGpusForNonbondedWithThreadMpi(a)
          IN  /\ resolver' = "decideWhetherToUseGpusForNonbondedWithThreadMpi"
              /\ args' = a
              /\ outcome' = o
              /\ mode' = "threadMpi"
              /\ useGpuForNonbonded' = Decision(o)
    /\ UNCHANGED <<run, GMX_GPU, pmeGpuBuild, useGpuForPme>>

CallNonbonded ==
    /\ resolver = NoCall
    /\ useGpuForNonbonded = Undecided
    /\ \E nonbondedTarget \in TaskTarget, userGpuTaskAssignment \in GpuIdLists,
          emulateGpuNonbonded \in EmulateGpuNonbonded,
          buildSupportsNonbondedOnGpu \in BOOLEAN, nonbondedOnGpuIsUseful \in BOOLEAN,
          gpusWereDetected \in BOOLEAN :
          LET a == [nonbondedTarget |-> nonbondedTarget,
                    userGpuTaskAssignment |-> userGpuTaskAssignment,
                    emulateGpuNonbonded |-> emulateGpuNonbonded,
                    buildSupportsNonbondedOnGpu |-> buildSupportsNonbondedOnGpu,
                    nonbondedOnGpuIsUseful |-> nonbondedOnGpuIsUseful,
                    gpusWereDetected |-> gpusWereDetected]
              o == decideWhetherToUseGpusForNonbonded(a)
          IN  /\ resolver' = "decideWhetherToUseGpusForNonbonded"
              /\ args' = a
              /\ outcome' = o
              /\ mode' = "general"
              /\ useGpuForNonbonded' = Decision(o)
    /\ UNCHANGED <<run, GMX_GPU, pmeGpuBuild, useGpuForPme>>

CallPmeWithThreadMpi ==
    /\ resolver = NoCall
    /\ mode = "threadMpi"
    /\ IsDecided(useGpuForNonbonded)
    /\ useGpuForPme = Undecided
    /\ \E pmeTarget \in TaskTarget, gpuIdsToUse \in GpuIdLists,
          userGpuTaskAssignment \in GpuIdLists, hardwareOk \in BOOLEAN, inputOk \in BOOLEAN,
          numRanksPerSimulation \in RankCounts, numPmeRanksPerSimulation \in PmeRankCounts :
          LET a == [useGpuForNonbonded |-> ValueOf(useGpuForNonbonded),
                    pmeTarget |-> pmeTarget,
                    gpuIdsToUse |-> gpuIdsToUse,
                    userGpuTaskAssignment |-> userGpuTaskAssignment,
                    hardwareInfo |-> [pmeGpuSupported |-> hardwareOk],
                    inputrec |-> [pmeGpuSupported |-> inputOk],
                    numRanksPerSimulation |-> numRanksPerSimulation,
                    numPmeRanksPerSimulation |-> numPmeRanksPerSimulation]
              o == decideWhetherToUseGpusForPmeWithThreadMpi(a)
          IN  /\ resolver' = "decideWhetherToUseGpusForPmeWithThreadMpi"
              /\ args' = a
              /\ outcome' = o
              /\ useGpuForPme' = Decision(o)
    /\ UNCHANGED <<run, GMX_GPU, pmeGpuBuild, mode, useGpuForNonbonded>>

CallPme ==
    /\ resolver = NoCall
    /\ mode = "general"
    /\ IsDecided(useGpuForNonbonded)
    /\ useGpuForPme = Undecided
    /\ \E pmeTarget \in TaskTarget, userGpuTaskAssignment \in GpuIdLists,
          hardwareOk \in BOOLEAN, inputOk \in BOOLEAN,
          numRanksPerSimulation \in RankCounts, numPmeRanksPerSimulation \in PmeRankCounts,
          gpusWereDetected \in BOOLEAN :
          LET a == [useGpuForNonbonded |-> ValueOf(useGpuForNonbonded),
                    pmeTarget |-> pmeTarget,
                    userGpuTaskAssignment |-> userGpuTaskAssignment,
                    hardwareInfo |-> [pmeGpuSupported |-> hardwareOk],
                    inputrec |-> [pmeGpuSupported |-> inputOk],
                    numRanksPerSimulation |-> numRanksPerSimulation,
                    numPmeRanksPerSimulation |-> numPmeRanksPerSimulation,
                    gpusWereDetected |-> gpusWereDetected]
              o == decideWhetherToUseGpusForPme(a)
          IN  /\ resolver' = "decideWhetherToUseGpusForPme"
              /\ args' = a
              /\ outcome' = o
              /\ useGpuForPme' = Decision(o)
    /\ UNCHANGED <<run, GMX_GPU, pmeGpuBuild, mode, useGpuForNonbonded>>

CallBonded ==
    /\ resolver = NoCall
    /\ IsDecided(useGpuForNonbonded)
    /\ IsDecided(useGpuForPme)
    /\ \E bondedTarget \in TaskTarget, canUseGpuForBonded \in BOOLEAN, usingLJPme \in BOOLEAN,
          usingElecPmeOrEwald \in BOOLEAN, numPmeRanksPerSimulation \in PmeRankCounts,
          gpusWereDetected \in BOOLEAN :
          LET a == [useGpuForNonbonded |-> ValueOf(useGpuForNonbonded),
                    useGpuForPme |-> ValueOf(useGpuForPme),
                    bondedTarget |-> bondedTarget,
                    canUseGpuForBonded |-> canUseGpuForBonded,
                    usingLJPme |-> usingLJPme,
                    usingElecPmeOrEwald |-> usingElecPmeOrEwald,
                    numPmeRanksPerSimulation |-> numPmeRanksPerSimulation,
                    gpusWereDetected |-> gpusWereDetected]
          IN  /\ resolver' = "decideWhetherToUseGpusForBonded"
              /\ args' = a
              /\ outcome' = decideWhetherToUseGpusForBonded(a)
    /\ UNCHANGED <<run, GMX_GPU, pmeGpuBuild, mode, useGpuForNonbonded, useGpuForPme>>

CallUpdate ==
    /\ resolver = NoCall
    /\ IsDecided(useGpuForNonbonded)
    /\ IsDecided(useGpuForPme)
    /\ \E forceGpuUpdateDefaultOn \in BOOLEAN, isDomainDecomposition \in BOOLEAN,
          updateTarget \in TaskTarget, gpusWereDetected \in BOOLEAN, s \in UpdateSettings :
          LET a == [forceGpuUpdateDefaultOn |-> forceGpuUpdateDefaultOn,
                    isDomainDecomposition |-> isDomainDecomposition,
                    useGpuForPme |-> ValueOf(useGpuForPme),
                    useGpuForNonbonded |-> ValueOf(useGpuForNonbonded),
                    updateTarget |-> updateTarget,
                    gpusWereDetected |-> gpusWereDetected,
                    inputrec |-> s.inputrec,
                    haveVSites |-> s.haveVSites,
                    useEssentialDynamics |-> s.useEssentialDynamics,
                    doOrientationRestraints |-> s.doOrientationRestraints,
                    useReplicaExchange |-> s.useReplicaExchange]
          IN  /\ resolver' = "decideWhetherToUseGpuForUpdate"
              /\ args' = a
              /\ outcome' = decideWhetherToUseGpuForUpdate(a)
    /\ UNCHANGED <<run, GMX_GPU, pmeGpuBuild, mode, useGpuForNonbonded, useGpuForPme>>

\* A call that returned is over: the caller goes on with the decisions made
\* so far.  A call that threw ends the run.
Continue ==
    /\ resolver # NoCall
    /\ Returned(outcome)
    /\ resolver' = NoCall
    /\ args' = <<>>
    /\ outcome' = <<>>
    /\ UNCHANGED <<run, GMX_GPU, pmeGpuBuild, mode, useGpuForNonbonded, useGpuForPme>>

Next ==
    \/ CallNonbondedWithThreadMpi
    \/ CallNonbonded
    \/ CallPmeWithThreadMpi
    \/ CallPme
    \/ CallBonded
    \/ CallUpdate
    \/ Continue

Spec == Init /\ [][Next]_vars

-----------------------------------------------------------------------------
(* A thread-MPI run: the thread-MPI functions decide first, before the ranks
   are started, and the general functions are then called with the same
   options and facts. *)

\* the call just made, added to those of the run
Called(name, o) == Append(run.calls, [resolver |-> name, outcome |-> o])

\* the calls made so far are n, and the last of them returned
ReturnedFrom(n) == Len(run.calls) = n /\ Returned(run.calls[n].outcome)

\* the ranks see a GPU exactly when mdrun found one to use
GpusWereDetected(gpuIdsToUse) == gpuIdsToUse # <<>>

\* the rank counts the started ranks may see: the one asked for, or the one
\* mdrun chose when none was
StartedRankCounts(numRanksPerSimulation) ==
    IF numRanksPerSimulation >= 1 THEN {numRanksPerSimulation} ELSE 1..MaxRanks

RunNonbondedWithThreadMpi ==
    /\ resolver = NoCall
    /\ run = NoRun
    /\ \E nonbondedTarget \in TaskTarget, gpuIdsToUse \in GpuIdLists,
          userGpuTaskAssignment \in GpuIdLists, emulateGpuNonbonded \in EmulateGpuNonbonded,
          buildSupportsNonbondedOnGpu \in BOOLEAN, nonbondedOnGpuIsUseful \in BOOLEAN,
          numRanksPerSimulation \in RankCounts :
          LET a == [nonbondedTarget |-> nonbondedTarget,
                    gpuIdsToUse |-> gpuIdsToUse,
                    userGpuTaskAssignment |-> userGpuTaskAssignment,
                    emulateGpuNonbonded |-> emulateGpuNonbonded,
                    buildSupportsNonbondedOnGpu |-> buildSupportsNonbondedOnGpu,
                    nonbondedOnGpuIsUseful |-> nonbondedOnGpuIsUseful,
                    numRanksPerSimulation |-> numRanksPerSimulation]
              o == decideWhetherToUseGpusForNonbondedWithThreadMpi(a)
          IN  /\ resolver' = "decideWhetherToUseGpusForNonbondedWithThreadMpi"
              /\ args' = a
              /\ outcome' = o
              /\ mode' = "threadMpi"
              /\ useGpuForNonbonded' = Decision(o)
              /\ run' = [nonbonded |-> a, pme |-> <<>>, calls |-> Called(resolver', o)]
    /\ UNCHANGED <<GMX_GPU, pmeGpuBuild, useGpuForPme>>

RunPmeWithThreadMpi ==
    /\ ReturnedFrom(1)
    /\ \E pmeTarget \in TaskTarget, hardwareOk \in BOOLEAN, inputOk \in BOOLEAN,
          numPmeRanksPerSimulation \in PmeRankCounts :
          LET a == [useGpuForNonbonded |-> ValueOf(useGpuForNonbonded),
                    pmeTarget |-> pmeTarget,
                    gpuIdsToUse |-> run.nonbonded.gpuIdsToUse,
                    userGpuTaskAssignment |-> run.nonbonded.userGpuTaskAssignment,
                    hardwareInfo |-> [pmeGpuSupported |-> hardwareOk],
                    inputrec |-> [pmeGpuSupported |-> inputOk],
                    numRanksPerSimulation |-> run.nonbonded.numRanksPerSimulation,
                    numPmeRanksPerSimulation |-> numPmeRanksPerSimulation]
              o == decideWhetherToUseGpusForPmeWithThreadMpi(a)
          IN  /\ resolver' = "decideWhetherToUseGpusForPmeWithThreadMpi"
              /\ args' = a
              /\ outcome' = o
              /\ useGpuForPme' = Decision(o)
              /\ run' = [run EXCEPT !.pme = a, !.calls = Called(resolver', o)]
    /\ UNCHANGED <<GMX_GPU, pmeGpuBuild, mode, useGpuForNonbonded>>

RunNonbonded ==
    /\ ReturnedFrom(2)
    /\ LET a == [nonbondedTarget |-> run.nonbonded.nonbondedTarget,
                 userGpuTaskAssignment |-> run.nonbonded.userGpuTaskAssignment,
                 emulateGpuNonbonded |-> run.nonbonded.emulateGpuNonbonded,
                 buildSupportsNonbondedOnGpu |-> run.nonbonded.buildSupportsNonbondedOnGpu,
                 nonbondedOnGpuIsUseful |-> run.nonbonded.nonbondedOnGpuIsUseful,
                 gpusWereDetected |-> GpusWereDetected(run.nonbonded.gpuIdsToUse)]
           o == decideWhetherToUseGpusForNonbonded(a)
       IN  /\ resolver' = "decideWhetherToUseGpusForNonbonded"
           /\ args' = a
           /\ outcome' = o
           /\ mode' = "general"
           /\ useGpuForNonbonded' = Decision(o)
           /\ useGpuForPme' = Undecided
           /\ run' = [run EXCEPT !.calls = Called(resolver', o)]
    /\ UNCHANGED <<GMX_GPU, pmeGpuBuild>>

RunPme ==
    /\ ReturnedFrom(3)
    /\ \E numRanksPerSimulation \in StartedRankCounts(run.nonbonded.numRanksPerSimulation) :
          LET a == [useGpuForNonbonded |-> ValueOf(useGpuForNonbonded),
                    pmeTarget |-> run.pme.pmeTarget,
                    userGpuTaskAssignment |-> run.nonbonded.userGpuTaskAssignment,
                    hardwareInfo |-> run.pme.hardwareInfo,
                    inputrec |-> run.pme.inputrec,
                    numRanksPerSimulation |-> numRanksPerSimulation,
                    numPmeRanksPerSimulation |-> run.pme.numPmeRanksPerSimulation,
                    gpusWereDetected |-> GpusWereDetected(run.nonbonded.gpuIdsToUse)]
              o == decideWhetherToUseGpusForPme(a)
          IN  /\ resolver' = "decideWhetherToUseGpusForPme"
              /\ args' = a
              /\ outcome' = o
              /\ useGpuForPme' = Decision(o)
              /\ run' = [run EXCEPT !.calls = Called(resolver', o)]
    /\ UNCHANGED <<GMX_GPU, pmeGpuBuild, mode, useGpuForNonbonded>>

NextTwoPhase ==
    \/ RunNonbondedWithThreadMpi
    \/ RunPmeWithThreadMpi
    \/ RunNonbonded
    \/ RunPme

SpecTwoPhase == Init /\ [][NextTwoPhase]_vars

-----------------------------------------------------------------------------
(* Vocabulary of the properties *)

NonbondedResolvers ==
    {"decideWhetherToUseGpusForNonbondedWithThreadMpi", "decideWhetherToUseGpusForNonbonded"}

PmeResolvers == {"decideWhetherToUseGpusForPmeWithThreadMpi", "decideWhetherToUseGpusForPme"}

ThreadMpiResolvers ==
    {"decideWhetherToUseGpusForNonbondedWithThreadMpi", "decideWhetherToUseGpusForPmeWithThreadMpi"}

\* the functions that take userGpuTaskAssignment
TaskAssignmentResolvers == NonbondedResolvers \cup PmeResolvers

\* the TaskTarget argument of the current call
Target ==
    CASE resolver \in NonbondedResolvers -> args.nonbondedTarget
      [] resolver \in PmeResolvers -> args.pmeTarget
      [] resolver = "decideWhetherToUseGpusForBonded" -> args.bondedTarget
      [] resolver = "decideWhetherToUseGpuForUpdate" -> args.updateTarget
      [] OTHER -> "none"

HasTaskAssignment == resolver \in TaskAssignmentResolvers /\ args.userGpuTaskAssignment # <<>>

\* the PME capability checks of the current call that fail, in the order they are made
PmeFailingChecks ==
    (IF pmeGpuBuild THEN <<>> ELSE <<"<reasons why this build cannot run PME on a GPU>">>)
    \o (IF args.hardwareInfo.pmeGpuSupported THEN <<>>
        ELSE <<"<reasons why this hardware cannot run PME on a GPU>">>)
    \o (IF args.inputrec.pmeGpuSupported THEN <<>>
        ELSE <<"<reasons why this input cannot run PME on a GPU>">>)

\* more PME ranks than PME on a GPU can handle
MoreThanOnePmeRank ==
    \/ args.numRanksPerSimulation > 1 /\ args.numPmeRanksPerSimulation = 0
    \/ args.numPmeRanksPerSimulation > 1

\* the requirements of the GPU update that the current call does not meet
UpdateUnmet ==
    {r \in {"Domain decomposition is not supported.\n",
            "Either PME or short-ranged non-bonded interaction tasks must run on the GPU.\n",
            "Compatible GPUs must have been found.\n",
            "Only a CUDA build is supported.\n",
            "Only the md integrator is supported.\n",
            "Nose-Hoover temperature coupling is not supported.\n",
            "Only Parrinello-Rahman and Berendsen pressure coupling are supported.\n",
            "Ewald surface correction is not supported.\n",
            "Virtual sites are not supported.\n",
            "Essential dynamics is not supported.\n",
            "Pulling is not supported.\n",
            "Orientation restraints are not supported.\n",
            "Free energy perturbations are not supported.\n",
            "Replica exchange simulations are not supported.\n",
            "Swapping the coordinates is not supported.\n"} :
        CASE r = "Domain decomposition is not supported.\n" -> args.isDomainDecomposition
          [] r = "Either PME or short-ranged non-bonded interaction tasks must run on the GPU.\n" ->
                 ~args.useGpuForPme /\ ~args.useGpuForNonbonded
          [] r = "Compatible GPUs must have been found.\n" -> ~args.gpusWereDetected
          [] r = "Only a CUDA build is supported.\n" -> GMX_GPU # "GMX_GPU_CUDA"
          [] r = "Only the md integrator is supported.\n" -> args.inputrec.eI # "eiMD"
          [] r = "Nose-Hoover temperature coupling is not supported.\n" ->
                 args.inputrec.etc = "etcNOSEHOOVER"
          [] r = "Only Parrinello-Rahman and Berendsen pressure coupling are supported.\n" ->
                 args.inputrec.epc = "epcMTTK"
          [] r = "Ewald surface correction is not supported.\n" ->
                 args.inputrec.coulombtype = "eelPME" /\ args.inputrec.epsilon_surface # 0
          [] r = "Virtual sites are not supported.\n" -> args.haveVSites
          [] r = "Essential dynamics is not supported.\n" -> args.useEssentialDynamics
          [] r = "Pulling is not supported.\n" ->
                 args.inputrec.bPull \/ args.inputrec.pull # "nullptr"
          [] r = "Orientation restraints are not supported.\n" -> args.doOrientationRestraints
          [] r = "Free energy perturbations are not supported.\n" -> args.inputrec.efep # "efepNO"
          [] r = "Replica exchange simulations are not supported.\n" -> args.useReplicaExchange
          [] r = "Swapping the coordinates is not supported.\n" ->
                 args.inputrec.eSwapCoords # "eswapNO"}

-----------------------------------------------------------------------------
(* C1 *)

\* C1: whenever a PME function, thread-MPI or general, returns true, the
\* useGpuForNonbonded it was given is true; and a caller that feeds it the
\* decision of the matching nonbonded function never holds PME on the GPU
\* with nonbonded off it.
C1_PmeOnGpuImpliesNonbondedOnGpu ==
    /\ resolver \in PmeResolvers /\ ReturnedValue(outcome, TRUE) => args.useGpuForNonbonded
    /\ useGpuForPme = Decided(TRUE) => useGpuForNonbonded = Decided(TRUE)

C1_Witness ==
    /\ resolver = "decideWhetherToUseGpusForPmeWithThreadMpi"
    /\ ReturnedValue(outcome, TRUE)
    /\ useGpuForPme = Decided(TRUE)

-----------------------------------------------------------------------------
(* C2 *)

\* C2 as claimed: with a non-empty userGpuTaskAssignment and target Auto,
\* each of the four functions that take the assignment throws
\* InconsistentInputError, whatever its other arguments.
C2_Original ==
    HasTaskAssignment /\ Target = "Auto" => ThrewCategory(outcome, "InconsistentInputError")

\* the arguments with which a function leaves by a "return false" that comes
\* before its -gputasks test
C2_ReturnsFalseFirst ==
    CASE resolver = "decideWhetherToUseGpusForNonbondedWithThreadMpi" ->
             \/ args.emulateGpuNonbonded = "Yes"
             \/ ~args.nonbondedOnGpuIsUseful
             \/ ~args.buildSupportsNonbondedOnGpu
      [] resolver = "decideWhetherToUseGpusForNonbonded" ->
             args.emulateGpuNonbonded = "No" /\ ~args.nonbondedOnGpuIsUseful
      [] resolver \in PmeResolvers ->
             ~args.useGpuForNonbonded \/ PmeFailingChecks # <<>>

\* C2 (amended): with a non-empty userGpuTaskAssignment and target Auto, a
\* function that takes the assignment never returns true: it returns false
\* when one of its earlier tests excludes the GPU (thread-MPI nonbonded:
\* emulation, settings or build; general nonbonded: settings, without
\* emulation; PME: nonbonded off the GPU or a failing capability check), and
\* throws InconsistentInputError in every other case.
C2_TaskAssignmentWithAuto ==
    HasTaskAssignment /\ Target = "Auto" =>
        IF C2_ReturnsFalseFirst
        THEN ReturnedValue(outcome, FALSE)
        ELSE ThrewCategory(outcome, "InconsistentInputError")

C2_Witness ==
    /\ resolver = "decideWhetherToUseGpusForNonbonded"
    /\ HasTaskAssignment /\ Target = "Auto"
    /\ args.nonbondedOnGpuIsUseful /\ args.emulateGpuNonbonded = "No"
    /\ outcome = Throw("InconsistentInputError", SpecifyEverything("-nb and -ntmpi"))

-----------------------------------------------------------------------------
(* C3 *)

\* the capability predicates of the current call's duty that fail
C3_Failing ==
    CASE resolver \in NonbondedResolvers ->
             {p \in {"build", "useful"} :
                 \/ p = "build" /\ ~args.buildSupportsNonbondedOnGpu
                 \/ p = "useful" /\ ~args.nonbondedOnGpuIsUseful}
      [] resolver \in PmeResolvers -> {PmeFailingChecks[i] : i \in DOMAIN PmeFailingChecks}
      [] resolver = "decideWhetherToUseGpusForBonded" ->
             IF args.canUseGpuForBonded THEN {} ELSE {"canUseGpuForBonded"}
      [] resolver = "decideWhetherToUseGpuForUpdate" -> UpdateUnmet
      [] OTHER -> {}

\* C3 as claimed: with target Gpu and exactly one failing capability
\* predicate, each of the six functions throws.
C3_Original ==
    resolver # NoCall /\ Target = "Gpu" /\ Cardinality(C3_Failing) = 1 => Threw(outcome)

\* the exception that names the failing predicate p
C3_Exception(p) ==
    CASE resolver = "decideWhetherToUseGpusForNonbonded" ->
             Throw("InconsistentInputError",
                   IF p = "build" THEN NbGpuWithoutBuildSupport
                   ELSE IF args.emulateGpuNonbonded = "Yes" THEN NbGpuWithEmulation
                   ELSE NbGpuNotUseful)
      [] resolver = "decideWhetherToUseGpusForPme" ->
             Throw("NotImplementedError",
                   IF args.useGpuForNonbonded
                   THEN <<"Cannot compute PME interactions on a GPU, because ", p>>
                   ELSE PmeGpuWithoutNonbonded)
      [] resolver = "decideWhetherToUseGpusForBonded" ->
             Throw("InconsistentInputError", BondedGpuNotSupported)
      [] resolver = "decideWhetherToUseGpuForUpdate" ->
             Throw("InconsistentInputError", UpdatePrefix \o <<p>>)

\* C3 (amended): with target Gpu and exactly one failing capability
\* predicate, the general nonbonded and PME functions and the bonded and
\* update functions throw, and the exception names the predicate:
\* nonbonded throws InconsistentInputError about the build or about the
\* settings (about emulation instead, when the settings fail and emulation
\* is requested); PME throws NotImplementedError with the failing check's
\* reasons (about nonbonded instead, when nonbonded is off the GPU); bonded
\* and update throw InconsistentInputError, update listing the one unmet
\* requirement.  The two thread-MPI functions return false and leave the
\* error to the later general call.
C3_GpuTargetWithOneFailingPredicate ==
    resolver # NoCall /\ Target = "Gpu" /\ Cardinality(C3_Failing) = 1 =>
        IF resolver \in ThreadMpiResolvers
        THEN ReturnedValue(outcome, FALSE)
        ELSE \E p \in C3_Failing : outcome = C3_Exception(p)

C3_Witness ==
    /\ resolver = "decideWhetherToUseGpusForNonbonded"
    /\ Target = "Gpu"
    /\ C3_Failing = {"build"}
    /\ outcome = Throw("InconsistentInputError", NbGpuWithoutBuildSupport)

-----------------------------------------------------------------------------
(* C4 *)

\* C4: a function returns true only if its duty's capability predicates
\* hold (for nonbonded also: emulation is not requested), its target is not
\* Cpu and, with a non-empty userGpuTaskAssignment, its target is not Auto.
C4_TrueOnlyIfCapable ==
    resolver # NoCall /\ ReturnedValue(outcome, TRUE) =>
        /\ C3_Failing = {}
        /\ resolver \in NonbondedResolvers => args.emulateGpuNonbonded = "No"
        /\ Target # "Cpu"
        /\ HasTaskAssignment => Target # "Auto"

-----------------------------------------------------------------------------
(* C5 *)

\* C5: with target Cpu a function returns false, except that the general
\* nonbonded and the general PME function throw InconsistentInputError when
\* userGpuTaskAssignment is not empty; nothing else is thrown.
C5_CpuTarget ==
    resolver # NoCall /\ Target = "Cpu" =>
        IF /\ HasTaskAssignment
           /\ resolver \in {"decideWhetherToUseGpusForNonbonded", "decideWhetherToUseGpusForPme"}
        THEN ThrewCategory(outcome, "InconsistentInputError")
        ELSE ReturnedValue(outcome, FALSE)

-----------------------------------------------------------------------------
(* C7 *)

\* the current call is one of PME that cannot use a GPU: nonbonded is off the
\* GPU or a capability check fails
C7_PmeNotPossible ==
    resolver \in PmeResolvers /\ (~args.useGpuForNonbonded \/ PmeFailingChecks # <<>>)

\* C7 as claimed: when PME cannot use a GPU, a PME function of either mode
\* returns false for target Auto or Cpu and throws for target Gpu.
C7_Original ==
    C7_PmeNotPossible =>
        IF Target = "Gpu" THEN Threw(outcome) ELSE ReturnedValue(outcome, FALSE)

\* C7 (amended): when PME cannot use a GPU, the general PME function returns
\* false for target Auto or Cpu and throws NotImplementedError for target
\* Gpu: about nonbonded when nonbonded is off the GPU, else with the reasons
\* of the first failing check (build, then hardware, then input).  The
\* thread-MPI PME function returns false for every target, Gpu included, and
\* leaves the error to the later general call.
C7_PmeNotPossibleOutcome ==
    C7_PmeNotPossible =>
        IF resolver = "decideWhetherToUseGpusForPme" /\ Target = "Gpu"
        THEN outcome = Throw("NotImplementedError",
                             IF ~args.useGpuForNonbonded
                             THEN PmeGpuWithoutNonbonded
                             ELSE <<"Cannot compute PME interactions on a GPU, because ",
                                    Head(PmeFailingChecks)>>)
        ELSE ReturnedValue(outcome, FALSE)

\* scenario B: -pme gpu with nonbonded on the CPU
C7_Witness ==
    /\ resolver = "decideWhetherToUseGpusForPme"
    /\ Target = "Gpu"
    /\ ~args.useGpuForNonbonded
    /\ outcome = Throw("NotImplementedError", PmeGpuWithoutNonbonded)

-----------------------------------------------------------------------------
(* C8, C9, C10 *)

\* the current call is one of PME that can use a GPU: nonbonded is on the GPU
\* and the three capability checks pass
C8_PmePossible ==
    resolver \in PmeResolvers /\ args.useGpuForNonbonded /\ PmeFailingChecks = <<>>

\* C8: with an empty userGpuTaskAssignment, target Gpu and PME able to use a
\* GPU, a PME function of either mode throws NotImplementedError exactly
\* when there is more than one PME rank (several ranks and no separate PME
\* rank, or several PME ranks), and returns true otherwise, whether or not
\* any GPU is there.
C8_PmeGpuNoTaskAssignment ==
    C8_PmePossible /\ ~HasTaskAssignment /\ Target = "Gpu" =>
        IF MoreThanOnePmeRank
        THEN ThrewCategory(outcome, "NotImplementedError")
        ELSE ReturnedValue(outcome, TRUE)

\* scenario E: -pme gpu with 4 ranks, 2 of them PME ranks
C8_Witness ==
    /\ resolver = "decideWhetherToUseGpusForPme"
    /\ ~HasTaskAssignment /\ Target = "Gpu"
    /\ args.numRanksPerSimulation = 4 /\ args.numPmeRanksPerSimulation = 2
    /\ outcome = Throw("NotImplementedError", PmeGpuMoreThanOneRank)

\* C9: with a non-empty userGpuTaskAssignment, target Gpu and PME able to
\* use a GPU, a PME function of either mode throws when there is more than
\* one PME rank: it returns true only with a single PME rank.
C9_PmeGpuWithTaskAssignment ==
    C8_PmePossible /\ HasTaskAssignment /\ Target = "Gpu" /\ MoreThanOnePmeRank =>
        Threw(outcome)

\* C10: with an empty userGpuTaskAssignment, target Auto and PME able to use
\* a GPU, a PME function never throws; with one rank it returns whether a
\* GPU is usable (gpuIdsToUse not empty, gpusWereDetected); the thread-MPI
\* function with the rank count not yet decided returns whether exactly one
\* GPU is usable; in every other case the result is false.
C10_PmeAutoNoTaskAssignment ==
    C8_PmePossible /\ ~HasTaskAssignment /\ Target = "Auto" =>
        outcome = Return(
            IF resolver = "decideWhetherToUseGpusForPmeWithThreadMpi"
            THEN IF args.numRanksPerSimulation = 1 THEN Len(args.gpuIdsToUse) >= 1
                 ELSE IF args.numRanksPerSimulation < 1 THEN Len(args.gpuIdsToUse) = 1
                 ELSE FALSE
            ELSE args.numRanksPerSimulation = 1 /\ args.gpusWereDetected)

\* full automated mode with two GPUs: PME stays on the CPU
C10_Witness ==
    /\ resolver = "decideWhetherToUseGpusForPmeWithThreadMpi"
    /\ C8_PmePossible /\ ~HasTaskAssignment /\ Target = "Auto"
    /\ args.numRanksPerSimulation < 1
    /\ Len(args.gpuIdsToUse) = 2
    /\ outcome = Return(FALSE)

-----------------------------------------------------------------------------
(* C11 *)

\* the current call is one of nonbonded that gets past the tests that exclude
\* the GPU: target not Cpu, no emulation, settings suitable, build with support
C11_NonbondedPossible ==
    /\ resolver \in NonbondedResolvers
    /\ Target # "Cpu"
    /\ args.emulateGpuNonbonded = "No"
    /\ args.nonbondedOnGpuIsUseful
    /\ args.buildSupportsNonbondedOnGpu

\* C11: once the tests that exclude the GPU pass, a nonbonded function of
\* either mode, given a non-empty userGpuTaskAssignment, throws
\* InconsistentInputError when the target is Auto (the thread-MPI function
\* also when the rank count is not yet decided) and returns true otherwise;
\* given an empty one it returns true for target Gpu, GPUs or not, and for
\* target Auto returns whether a GPU is usable (gpuIdsToUse not empty,
\* gpusWereDetected).
C11_NonbondedOutcome ==
    C11_NonbondedPossible =>
        IF HasTaskAssignment
        THEN IF \/ Target = "Auto"
                \/ /\ resolver = "decideWhetherToUseGpusForNonbondedWithThreadMpi"
                   /\ args.numRanksPerSimulation < 1
             THEN ThrewCategory(outcome, "InconsistentInputError")
             ELSE ReturnedValue(outcome, TRUE)
        ELSE IF Target = "Gpu"
             THEN ReturnedValue(outcome, TRUE)
             ELSE outcome = Return(IF resolver = "decideWhetherToUseGpusForNonbonded"
                                   THEN args.gpusWereDetected
                                   ELSE Len(args.gpuIdsToUse) > 0)

\* -nb gpu -gputasks with thread-MPI and the rank count left to mdrun
C11_Witness ==
    /\ resolver = "decideWhetherToUseGpusForNonbondedWithThreadMpi"
    /\ C11_NonbondedPossible /\ HasTaskAssignment /\ Target = "Gpu"
    /\ args.numRanksPerSimulation < 1
    /\ outcome = Throw("InconsistentInputError", SpecifyEverything("-nb and -ntmpi"))

-----------------------------------------------------------------------------
(* C12 *)

\* C12 as claimed: with emulation requested, a nonbonded function of either
\* mode throws when the target is Gpu or userGpuTaskAssignment is not empty,
\* and returns false otherwise.
C12_Original ==
    resolver \in NonbondedResolvers /\ args.emulateGpuNonbonded = "Yes" =>
        IF Target = "Gpu" \/ HasTaskAssignment
        THEN Threw(outcome)
        ELSE ReturnedValue(outcome, FALSE)

\* C12 (amended): with emulation requested, the general nonbonded function
\* throws InconsistentInputError when the target is Gpu or
\* userGpuTaskAssignment is not empty, and returns false otherwise.  The
\* thread-MPI nonbonded function returns false whatever the target and the
\* assignment, and leaves the error to the later general call.
C12_NonbondedWithEmulation ==
    resolver \in NonbondedResolvers /\ args.emulateGpuNonbonded = "Yes" =>
        IF /\ resolver = "decideWhetherToUseGpusForNonbonded"
           /\ (Target = "Gpu" \/ HasTaskAssignment)
        THEN ThrewCategory(outcome, "InconsistentInputError")
        ELSE ReturnedValue(outcome, FALSE)

\* emulation with -gputasks and -nb auto
C12_Witness ==
    /\ resolver = "decideWhetherToUseGpusForNonbonded"
    /\ args.emulateGpuNonbonded = "Yes"
    /\ Target = "Auto" /\ HasTaskAssignment
    /\ outcome = Throw("InconsistentInputError", NbTaskAssignmentWithEmulation)

-----------------------------------------------------------------------------
(* C13 *)

\* the CPU does reciprocal-space work, as the claim has it: electrostatics by
\* PME or Ewald that is not on the GPU, or LJ-PME
C13_CpuHasReciprocalWork ==
    (args.usingElecPmeOrEwald /\ ~args.useGpuForPme) \/ args.usingLJPme

\* C13 as claimed: with target Auto the bonded function returns true exactly
\* when a GPU was detected and the CPU does reciprocal-space work, whatever
\* numPmeRanksPerSimulation.  (Read in the claim's favour: for calls with
\* canUseGpuForBonded and nonbonded on the GPU, as in its example.)
C13_Original ==
    /\ resolver = "decideWhetherToUseGpusForBonded" /\ Target = "Auto"
    /\ args.canUseGpuForBonded /\ args.useGpuForNonbonded
    => outcome = Return(args.gpusWereDetected /\ C13_CpuHasReciprocalWork)

\* C13 (amended): with target Auto the bonded function returns true exactly
\* when bonded can run on a GPU, nonbonded is on the GPU, a GPU was detected
\* and this rank's CPU does reciprocal-space work: LJ-PME is used, or
\* electrostatics use PME or Ewald that is not on the GPU and there are no
\* separate PME ranks (numPmeRanksPerSimulation <= 0).  It never throws.
C13_BondedAuto ==
    resolver = "decideWhetherToUseGpusForBonded" /\ Target = "Auto" =>
        outcome = Return(/\ args.canUseGpuForBonded
                         /\ args.useGpuForNonbonded
                         /\ args.gpusWereDetected
                         /\ \/ args.usingLJPme
                            \/ /\ args.usingElecPmeOrEwald
                               /\ ~args.useGpuForPme
                               /\ args.numPmeRanksPerSimulation < 1)

\* scenario D with a separate PME rank: bonded stays on the CPU
C13_Witness ==
    /\ resolver = "decideWhetherToUseGpusForBonded" /\ Target = "Auto"
    /\ args.canUseGpuForBonded /\ args.useGpuForNonbonded /\ ~args.useGpuForPme
    /\ args.usingElecPmeOrEwald /\ ~args.usingLJPme /\ args.gpusWereDetected
    /\ args.numPmeRanksPerSimulation = 1
    /\ outcome = Return(FALSE)

-----------------------------------------------------------------------------
(* C14 *)

\* C14: the bonded function returns true only with nonbonded on the GPU and
\* canUseGpuForBonded; with nonbonded off the GPU it throws
\* InconsistentInputError for target Gpu and returns false for target Auto;
\* with target Gpu, canUseGpuForBonded and nonbonded on the GPU it returns
\* true, GPU detected or not.
C14_BondedNeedsNonbonded ==
    resolver = "decideWhetherToUseGpusForBonded" =>
        /\ ReturnedValue(outcome, TRUE) => args.useGpuForNonbonded /\ args.canUseGpuForBonded
        /\ ~args.useGpuForNonbonded /\ Target = "Gpu" =>
               ThrewCategory(outcome, "InconsistentInputError")
        /\ ~args.useGpuForNonbonded /\ Target = "Auto" => ReturnedValue(outcome, FALSE)
        /\ Target = "Gpu" /\ args.canUseGpuForBonded /\ args.useGpuForNonbonded =>
               ReturnedValue(outcome, TRUE)

\* -bonded gpu with nonbonded on the CPU
C14_Witness ==
    /\ resolver = "decideWhetherToUseGpusForBonded" /\ Target = "Gpu"
    /\ args.canUseGpuForBonded /\ ~args.useGpuForNonbonded
    /\ outcome = Throw("InconsistentInputError", BondedGpuWithoutNonbonded)

-----------------------------------------------------------------------------
(* C15 *)

\* the requirements of the GPU update, in the order they are checked
C15_Order ==
    <<"Domain decomposition is not supported.\n",
      "Either PME or short-ranged non-bonded interaction tasks must run on the GPU.\n",
      "Compatible GPUs must have been found.\n",
      "Only a CUDA build is supported.\n",
      "Only the md integrator is supported.\n",
      "Nose-Hoover temperature coupling is not supported.\n",
      "Only Parrinello-Rahman and Berendsen pressure coupling are supported.\n",
      "Ewald surface correction is not supported.\n",
      "Virtual sites are not supported.\n",
      "Essential dynamics is not supported.\n",
      "Pulling is not supported.\n",
      "Orientation restraints are not supported.\n",
      "Free energy perturbations are not supported.\n",
      "Replica exchange simulations are not supported.\n",
      "Swapping the coordinates is not supported.\n">>

\* the lines of the unmet requirements, and of no other, in that order
C15_UnmetLines ==
    LET IsUnmet(r) == r \in UpdateUnmet
    IN  SelectSeq(C15_Order, IsUnmet)

\* C15: when some requirement of the GPU update is not met, the update
\* function with target Gpu throws one InconsistentInputError whose message
\* is the prefix followed by the line of every unmet requirement, and of no
\* met one, in the order of the checks; with target Auto it returns false.
C15_UpdateUnmetRequirements ==
    resolver = "decideWhetherToUseGpuForUpdate" /\ UpdateUnmet # {} =>
        /\ Target = "Gpu" =>
               outcome = Throw("InconsistentInputError", UpdatePrefix \o C15_UnmetLines)
        /\ Target = "Auto" => ReturnedValue(outcome, FALSE)

\* scenario C, with Nose-Hoover coupling as well: both lines are listed
C15_Witness ==
    /\ resolver = "decideWhetherToUseGpuForUpdate" /\ Target = "Gpu"
    /\ args.useGpuForNonbonded
    /\ UpdateUnmet = {"Domain decomposition is not supported.\n",
                      "Nose-Hoover temperature coupling is not supported.\n"}
    /\ outcome = Throw("InconsistentInputError",
                       UpdatePrefix \o <<"Domain decomposition is not supported.\n",
                                         "Nose-Hoover temperature coupling is not supported.\n">>)

-----------------------------------------------------------------------------
(* C16 *)

\* C16: the update function returns true exactly when its target is not
\* Cpu, every requirement is met, and the target is Gpu or it is Auto with
\* forceGpuUpdateDefaultOn; so true implies PME or nonbonded on the GPU, a
\* GPU detected and no domain decomposition, and target Auto without
\* forceGpuUpdateDefaultOn always gives false.
C16_UpdateTrueExactlyWhen ==
    resolver = "decideWhetherToUseGpuForUpdate" =>
        /\ outcome = Return(TRUE) <=>
               /\ Target # "Cpu"
               /\ UpdateUnmet = {}
               /\ Target = "Gpu" \/ (Target = "Auto" /\ args.forceGpuUpdateDefaultOn)
        /\ outcome = Return(TRUE) =>
               /\ args.useGpuForPme \/ args.useGpuForNonbonded
               /\ args.gpusWereDetected
               /\ ~args.isDomainDecomposition
        /\ Target = "Auto" /\ ~args.forceGpuUpdateDefaultOn => outcome = Return(FALSE)

\* -update auto with the default switched on and nothing in the way
C16_Witness ==
    /\ resolver = "decideWhetherToUseGpuForUpdate" /\ Target = "Auto"
    /\ args.forceGpuUpdateDefaultOn
    /\ UpdateUnmet = {}
    /\ outcome = Return(TRUE)

-----------------------------------------------------------------------------
(* C17, C18: the two phases of a thread-MPI run *)

\* the outcome of the n-th call of the run
RunOutcome(n) == run.calls[n].outcome

\* C17: in a thread-MPI run, a request for the GPU (target Gpu) that the
\* thread-MPI nonbonded or PME function answered with a silent false is
\* answered with an error by the general function of the same duty: the
\* second phase never ends such a request with a bool.
C17_DeferredError ==
    /\ /\ Len(run.calls) >= 3
       /\ run.nonbonded.nonbondedTarget = "Gpu"
       /\ NonbondedExcludedWithThreadMpi(run.nonbonded)
       /\ RunOutcome(1) = Return(FALSE)
       => Threw(RunOutcome(3))
    /\ /\ Len(run.calls) = 4
       /\ run.pme.pmeTarget = "Gpu"
       /\ PmeExcludedWithThreadMpi(run.pme)
       /\ RunOutcome(2) = Return(FALSE)
       => Threw(RunOutcome(4))

\* C18: in a thread-MPI run with the rank count given, where the general
\* functions see the same options, facts and rank counts, the thread-MPI and
\* the general function of a duty that both return a bool return the same
\* bool (for PME: when given the same useGpuForNonbonded).
C18_ModesAgree ==
    run.calls # <<>> /\ run.nonbonded.numRanksPerSimulation >= 1 =>
        /\ Len(run.calls) >= 3 /\ Returned(RunOutcome(3)) => RunOutcome(3) = RunOutcome(1)
        /\ /\ Len(run.calls) = 4
           /\ Returned(RunOutcome(4))
           /\ RunOutcome(3) = RunOutcome(1)
           => RunOutcome(4) = RunOutcome(2)

=============================================================================
